---- MODULE Spec2Model ----
(***************************************************************************)
(* MultiSetMap<std::string, std::string>: an ordered map from keys to      *)
(* ordered sets of values (src/MultiSetMap.h).  Strings are sequences of   *)
(* unsigned char codes; a std::map is the sequence of its nodes and a       *)
(* std::set the sequence of its elements, both in iteration order.         *)
(***************************************************************************)
EXTENDS Integers, Sequences, FiniteSets, TLC

\* ------------------------------------------------------------------ bounds
\* most values stored at once, over all keys of all containers
MaxStored == 3

\* ------------------------------------------------------------------ inputs
\* the keys the callers use: "", "A", "a", "AA", "Aa", "aA", "aa"
Keys ==
    {<<>>, <<65>>, <<97>>, <<65, 65>>, <<65, 97>>, <<97, 65>>, <<97, 97>>}

\* the prefixes the callers ask for: every key, and
\* "b", "Ab", "ab", "bA", "ba", "bb"
Prefixes ==
    Keys \cup {<<98>>, <<65, 98>>, <<97, 98>>, <<98, 65>>, <<98, 97>>, <<98, 98>>}

\* the values: "a" and "b"
Values == {<<97>>, <<98>>}

\* map_[i]: the member map_ of container i; emptySet: the static member;
\* call, ret: the last call made and what it returned;
\* pre: the containers as they were when that call was made
VARIABLES map_, emptySet, call, ret, pre

vars == <<map_, emptySet, call, ret, pre>>

\* the container instances alive (all of one template instantiation)
Instances == DOMAIN map_

\* ------------------------------------------------- std::string primitives
\* std::less<std::string>: lexicographic order on unsigned char codes
RECURSIVE Less(_, _)
Less(a, b) ==
    IF b = <<>> THEN FALSE
    ELSE IF a = <<>> THEN TRUE
    ELSE IF a[1] < b[1] THEN TRUE
    ELSE IF b[1] < a[1] THEN FALSE
    ELSE Less(Tail(a), Tail(b))

\* std::string::starts_with
starts_with(s, p) ==
    /\ Len(p) <= Len(s)
    /\ \A i \in 1..Len(p) : s[i] = p[i]

\* std::tolower on an unsigned char, "C" locale
tolower(c) == IF c >= 65 /\ c <= 90 THEN c + 32 ELSE c

\* std::transform(k.begin(), k.end(), k.begin(), tolower)
transformLower(s) == [i \in 1..Len(s) |-> tolower(s[i])]

\* ---------------------------------------------------- std::set primitives
\* the first position of s whose element is not less than v (SetCompare)
RECURSIVE setLowerFrom(_, _, _)
setLowerFrom(s, v, i) ==
    IF i > Len(s) THEN Len(s) + 1
    ELSE IF ~Less(s[i], v) THEN i
    ELSE setLowerFrom(s, v, i + 1)

\* std::multiset::insert: an equivalent element does not stop the insertion
multisetInsert(s, v) ==
    LET i == setLowerFrom(s, v, 1)
    IN  SubSeq(s, 1, i - 1) \o <<v>> \o SubSeq(s, i, Len(s))

\* std::set::insert: no effect when an equivalent element is there
setInsert(s, v) ==
    LET i == setLowerFrom(s, v, 1)
    IN  IF i <= Len(s) /\ ~Less(v, s[i]) THEN s
        ELSE SubSeq(s, 1, i - 1) \o <<v>> \o SubSeq(s, i, Len(s))

\* std::set::erase(value): removes the element equivalent to v, if any
setErase(s, v) ==
    LET i == setLowerFrom(s, v, 1)
    IN  IF i <= Len(s) /\ ~Less(v, s[i])
        THEN SubSeq(s, 1, i - 1) \o SubSeq(s, i + 1, Len(s))
        ELSE s

\* ---------------------------------------------------- std::map primitives
\* map_.end()
End(m) == Len(m) + 1

\* std::map::lower_bound: the first node whose key is not less than key
RECURSIVE lower_boundFrom(_, _, _)
lower_boundFrom(m, key, i) ==
    IF i > Len(m) THEN End(m)
    ELSE IF ~Less(m[i].first, key) THEN i
    ELSE lower_boundFrom(m, key, i + 1)

lower_bound(m, key) == lower_boundFrom(m, key, 1)

\* std::map::find: the node equivalent to key under the comparator, or end()
mapFind(m, key) ==
    LET i == lower_bound(m, key)
    IN  IF i <= Len(m) /\ ~Less(key, m[i].first) THEN i ELSE End(m)

\* std::map::erase(iterator)
eraseAt(m, i) == SubSeq(m, 1, i - 1) \o SubSeq(m, i + 1, Len(m))

\* std::map::erase(key)
eraseKey(m, key) ==
    LET i == mapFind(m, key)
    IN  IF i = End(m) THEN m ELSE eraseAt(m, i)

\* std::map::operator[]: the node for key, value-initialised if absent
subscript(m, key) ==
    LET i == lower_bound(m, key)
    IN  IF i <= Len(m) /\ ~Less(key, m[i].first) THEN m
        ELSE SubSeq(m, 1, i - 1) \o <<[first |-> key, second |-> <<>>]>>
                 \o SubSeq(m, i, Len(m))

\* ------------------------------------------------------------- references
\* the address of the static member emptySet
EmptySetRef == [obj |-> "emptySet", inst |-> "static", key |-> <<>>]
\* the address of the set held by the node for key in container inst
NodeRef(inst, key) == [obj |-> "node", inst |-> inst, key |-> key]

\* ------------------------------------------------------------ the methods
\* add as map_.emplace(key, {value}): an existing node is left alone
addEmplace(m, key, value) ==
    LET i == lower_bound(m, key)
    IN  IF i <= Len(m) /\ ~Less(key, m[i].first) THEN m
        ELSE SubSeq(m, 1, i - 1) \o <<[first |-> key, second |-> <<value>>]>>
                 \o SubSeq(m, i, Len(m))

\* void add(const Key&, const Value&)
add(m, key, value) ==
    LET m1 == subscript(m, key)
        i  == mapFind(m1, key)
    IN  [m1 EXCEPT ![i].second = setInsert(@, value)]

\* remove(key) erasing the node lower_bound finds, equivalent to key or not
removeKeyLowerBound(m, key) ==
    LET i == lower_bound(m, key)
    IN  IF i = End(m) THEN m ELSE eraseAt(m, i)

\* void remove(const Key&)
removeKey(m, key) == eraseKey(m, key)

\* remove(key, value) without the erase of an emptied node
removeValueKeepEmpty(m, key, value) ==
    LET it == mapFind(m, key)
    IN  IF it = End(m) THEN m
        ELSE [m EXCEPT ![it].second = setErase(@, value)]

\* remove(key, value) erasing the node whether or not its set is empty
removeValueAlwaysErase(m, key, value) ==
    LET it == mapFind(m, key)
    IN  IF it = End(m) THEN m
        ELSE eraseAt([m EXCEPT ![it].second = setErase(@, value)], it)

\* remove(key, value) clearing the set of a member instead of erasing the member
removeValueClear(m, key, value) ==
    LET it == mapFind(m, key)
    IN  IF it = End(m) THEN m
        ELSE LET m1 == [m EXCEPT ![it].second =
                                IF setErase(@, value) # @ THEN <<>> ELSE @]
             IN  IF m1[it].second = <<>> THEN eraseAt(m1, it) ELSE m1

\* void remove(const Key&, const Value&)
removeValue(m, key, value) ==
    LET it == mapFind(m, key)
    IN  IF it = End(m) THEN m
        ELSE LET m1 == [m EXCEPT ![it].second = setErase(@, value)]
             IN  IF m1[it].second = <<>> THEN eraseAt(m1, it) ELSE m1

\* find with a sentinel that is a member of each container
findOwnSentinel(inst, m, key) ==
    LET it == mapFind(m, key)
    IN  [map |-> m,
         ret |-> IF it # End(m) THEN NodeRef(inst, m[it].first)
                 ELSE [obj |-> "emptySet", inst |-> inst, key |-> <<>>]]

\* find as map_[key]: a miss creates the node
findSubscript(inst, m, key) ==
    [map |-> subscript(m, key), ret |-> NodeRef(inst, key)]

\* const std::set<Value>& find(const Key&) const: the container as the call
\* leaves it, and the reference returned
find(inst, m, key) ==
    LET it == mapFind(m, key)
    IN  [map |-> m,
         ret |-> IF it # End(m) THEN NodeRef(inst, m[it].first) ELSE EmptySetRef]

\* the case-sensitive loop of findByPrefix
RECURSIVE scanSensitive(_, _, _, _, _)
scanSensitive(inst, m, prefix, it, prefixKVPs) ==
    IF it # End(m) /\ starts_with(m[it].first, prefix)
    THEN scanSensitive(inst, m, prefix, it + 1,
             Append(prefixKVPs,
                    [first |-> m[it].first, second |-> NodeRef(inst, m[it].first)]))
    ELSE prefixKVPs

\* the case-insensitive loop comparing with the prefix as written
RECURSIVE scanInsensitiveRawPrefix(_, _, _, _, _)
scanInsensitiveRawPrefix(inst, m, prefix, it, prefixKVPs) ==
    IF it = End(m) THEN prefixKVPs
    ELSE LET keyLower == transformLower(m[it].first)
         IN  scanInsensitiveRawPrefix(inst, m, prefix, it + 1,
                 IF starts_with(keyLower, prefix)
                 THEN Append(prefixKVPs,
                             [first |-> m[it].first,
                              second |-> NodeRef(inst, m[it].first)])
                 ELSE prefixKVPs)

\* the case-insensitive loop of findByPrefix
RECURSIVE scanInsensitive(_, _, _, _, _)
scanInsensitive(inst, m, prefix, it, prefixKVPs) ==
    IF it = End(m) THEN prefixKVPs
    ELSE LET keyLower    == transformLower(m[it].first)
             prefixLower == transformLower(prefix)
         IN  scanInsensitive(inst, m, prefix, it + 1,
                 IF starts_with(keyLower, prefixLower)
                 THEN Append(prefixKVPs,
                             [first |-> m[it].first,
                              second |-> NodeRef(inst, m[it].first)])
                 ELSE prefixKVPs)

\* findByPrefix scanning from begin() instead of lower_bound(prefix)
findByPrefixFromBegin(inst, m, prefix, caseSensitive) ==
    [map |-> m,
     ret |-> IF caseSensitive
             THEN scanSensitive(inst, m, prefix, 1, <<>>)
             ELSE scanInsensitive(inst, m, prefix, 1, <<>>)]

\* std::vector<std::pair<Key, const std::set<Value>&>>
\* findByPrefix(prefix, caseSensitive) const, with Key = std::string
findByPrefix(inst, m, prefix, caseSensitive) ==
    [map |-> m,
     ret |-> IF caseSensitive
             THEN scanSensitive(inst, m, prefix, lower_bound(m, prefix), <<>>)
             ELSE scanInsensitive(inst, m, prefix, 1, <<>>)]

\* the set a reference designates, given the containers and the static member
DerefIn(maps, es, r) ==
    IF r.obj = "emptySet" THEN es
    ELSE LET m  == maps[r.inst]
             it == mapFind(m, r.key)
         IN  m[it].second

\* the set a reference designates in the current state
Deref(r) == DerefIn(map_, emptySet, r)

\* ------------------------------------------------------------------ state
\* the number of values in the nodes i.. of a container
RECURSIVE SizeFrom(_, _)
SizeFrom(m, i) ==
    IF i > Len(m) THEN 0 ELSE Len(m[i].second) + SizeFrom(m, i + 1)

\* the number of values a container holds
Size(m) == SizeFrom(m, 1)

\* the number of values the containers of S hold
RECURSIVE StoredIn(_)
StoredIn(S) ==
    IF S = {} THEN 0
    ELSE LET x == CHOOSE y \in S : TRUE
         IN  Size(map_[x]) + StoredIn(S \ {x})

Stored == StoredIn(Instances)

Void == <<>>
NoCall == [op |-> "none", inst |-> "m1", key |-> <<>>, value |-> <<>>, cs |-> TRUE]
Call(op, inst, key, value, cs) ==
    [op |-> op, inst |-> inst, key |-> key, value |-> value, cs |-> cs]

InitWith(insts) ==
    /\ map_ = [i \in insts |-> <<>>]
    /\ emptySet = <<>>
    /\ call = NoCall
    /\ ret = Void
    /\ pre = map_

\* one container, just constructed
Init == InitWith({"m1"})

\* two containers of the same type, just constructed
InitTwo == InitWith({"m1", "m2"})

Add(inst, key, value) ==
    /\ Size(add(map_[inst], key, value)) > Size(map_[inst]) => Stored < MaxStored
    /\ map_' = [map_ EXCEPT ![inst] = add(@, key, value)]
    /\ call' = Call("add", inst, key, value, TRUE)
    /\ ret' = Void
    /\ pre' = map_
    /\ UNCHANGED emptySet

RemoveKey(inst, key) ==
    /\ map_' = [map_ EXCEPT ![inst] = removeKey(@, key)]
    /\ call' = Call("removeKey", inst, key, <<>>, TRUE)
    /\ ret' = Void
    /\ pre' = map_
    /\ UNCHANGED emptySet

RemoveValue(inst, key, value) ==
    /\ map_' = [map_ EXCEPT ![inst] = removeValue(@, key, value)]
    /\ call' = Call("removeValue", inst, key, value, TRUE)
    /\ ret' = Void
    /\ pre' = map_
    /\ UNCHANGED emptySet

Find(inst, key) ==
    /\ map_' = [map_ EXCEPT ![inst] = find(inst, @, key).map]
    /\ ret' = find(inst, map_[inst], key).ret
    /\ call' = Call("find", inst, key, <<>>, TRUE)
    /\ pre' = map_
    /\ UNCHANGED emptySet

FindByPrefix(inst, prefix, caseSensitive) ==
    /\ map_' = [map_ EXCEPT ![inst] = findByPrefix(inst, @, prefix, caseSensitive).map]
    /\ ret' = findByPrefix(inst, map_[inst], prefix, caseSensitive).ret
    /\ call' = Call("findByPrefix", inst, prefix, <<>>, caseSensitive)
    /\ pre' = map_
    /\ UNCHANGED emptySet

Mutate ==
    \/ \E inst \in Instances, key \in Keys, value \in Values : Add(inst, key, value)
    \/ \E inst \in Instances, key \in Keys : RemoveKey(inst, key)
    \/ \E inst \in Instances, key \in Keys, value \in Values : RemoveValue(inst, key, value)

Lookup == \E inst \in Instances, key \in Keys : Find(inst, key)

PrefixLookup ==
    \E inst \in Instances, prefix \in Prefixes, cs \in BOOLEAN :
        FindByPrefix(inst, prefix, cs)

Next == Mutate \/ Lookup \/ PrefixLookup

Spec == Init /\ [][Next]_vars

\* the keys of at most one character
ShortKeys == {k \in Keys : Len(k) <= 1}

\* two containers, short keys, no prefix lookups
NextTwo ==
    \/ \E inst \in Instances, key \in ShortKeys, value \in Values : Add(inst, key, value)
    \/ \E inst \in Instances, key \in ShortKeys : RemoveKey(inst, key)
    \/ \E inst \in Instances, key \in ShortKeys, value \in Values :
           RemoveValue(inst, key, value)
    \/ \E inst \in Instances, key \in ShortKeys : Find(inst, key)

SpecTwo == InitTwo /\ [][NextTwo]_vars

\* ------------------------------------------------------ the abstract view
\* the keys a container holds
KeysOf(m) == {m[i].first : i \in 1..Len(m)}

\* the elements of a std::set
Elems(s) == {s[i] : i \in 1..Len(s)}

\* the values a container holds for key; none when it does not hold key
SetOf(m, key) ==
    IF key \in KeysOf(m)
    THEN Elems((CHOOSE e \in {m[i] : i \in 1..Len(m)} : e.first = key).second)
    ELSE {}

\* p is a prefix of s
IsPrefixOf(p, s) == Len(p) <= Len(s) /\ SubSeq(s, 1, Len(p)) = p

\* the keys a sequence of (key, set) pairs names
Firsts(kvps) == {kvps[i].first : i \in 1..Len(kvps)}

\* the arguments of the last call
c_m == map_[call.inst]
c_pre == pre[call.inst]

\* kvps names exactly the keys of S, once each, ascending, each with the
\* reference to the set container inst holds for it
Enumerates(kvps, inst, S) ==
    /\ Firsts(kvps) = S
    /\ Len(kvps) = Cardinality(S)
    /\ \A i, j \in 1..Len(kvps) : i < j => Less(kvps[i].first, kvps[j].first)
    /\ \A i \in 1..Len(kvps) :
          /\ kvps[i].second = NodeRef(inst, kvps[i].first)
          /\ Elems(Deref(kvps[i].second)) = SetOf(map_[inst], kvps[i].first)

\* ------------------------------------------------------------------ claims
\* C1: after every operation, every key stored in a map has a non-empty
\* ValueSet.
NoEmptyEntries ==
    \A inst \in Instances : \A i \in 1..Len(map_[inst]) : map_[inst][i].second # <<>>

\* remove(key, value) has just taken the last value of a key, and other keys remain
NoEmptyEntriesWitness ==
    /\ call.op = "removeValue"
    /\ SetOf(c_pre, call.key) = {call.value}
    /\ call.key \notin KeysOf(c_m)
    /\ Len(c_m) >= 1

\* C2: immediately after add(k, v), the set find(k) returns contains v,
\* whether or not k was present before.
AddFindConsistency ==
    call.op = "add" =>
        call.value \in Elems(Deref(find(call.inst, c_m, call.key).ret))

\* add(k, v) has run on a key that held another value only
AddFindWitness ==
    /\ call.op = "add"
    /\ call.key \in KeysOf(c_pre)
    /\ call.value \notin SetOf(c_pre, call.key)

\* C3: add(k, v) right after add(k, v), and add(k, v) of a value that is
\* already a member of k's set, leave every container as it was.
IdempotentAdd ==
    [][(call'.op = "add" /\
        (call' = call \/ call'.value \in SetOf(map_[call'.inst], call'.key)))
       => map_' = map_]_vars

\* add(k, v) has run on a set of two values that already held v
IdempotentAddWitness ==
    /\ call.op = "add"
    /\ call.value \in SetOf(c_pre, call.key)
    /\ Cardinality(SetOf(c_pre, call.key)) = 2
    /\ map_ = pre

\* C4: remove(k) with k absent, remove(k, v) with k absent, and remove(k, v)
\* with v not a member of k's set leave every container as it was.
IdempotentRemove ==
    /\ (call.op = "removeKey" /\ call.key \notin KeysOf(c_pre)) => map_ = pre
    /\ (call.op = "removeValue" /\ call.value \notin SetOf(c_pre, call.key))
           => map_ = pre

\* remove(k, v) has run on a key that is present but does not hold v
IdempotentRemoveWitness ==
    /\ call.op = "removeValue"
    /\ call.key \in KeysOf(c_pre)
    /\ call.value \notin SetOf(c_pre, call.key)
    /\ call.key \in KeysOf(c_m)

\* C5: remove(k, v) of a member v leaves find(k) equal to the previous set
\* minus v and deletes the entry exactly when that is empty; a key so deleted
\* is in no findByPrefix result.
RemoveDrains ==
    (call.op = "removeValue" /\ call.value \in SetOf(c_pre, call.key)) =>
        LET rest == SetOf(c_pre, call.key) \ {call.value}
        IN  /\ Elems(Deref(find(call.inst, c_m, call.key).ret)) = rest
            /\ SetOf(c_m, call.key) = rest
            /\ call.key \in KeysOf(c_m) <=> rest # {}
            /\ rest = {} =>
                 \A p \in Prefixes, cs \in BOOLEAN :
                     call.key \notin Firsts(findByPrefix(call.inst, c_m, p, cs).ret)

\* remove(k, v) has left k with one value
RemoveDrainsWitness ==
    /\ call.op = "removeValue"
    /\ call.value \in SetOf(c_pre, call.key)
    /\ Cardinality(SetOf(c_m, call.key)) = 1

\* C6: remove(key) deletes the entry of key whatever the size of its set and
\* leaves the entry of every other key as it was.
RemoveKeyDeletes ==
    call.op = "removeKey" =>
        /\ call.key \notin KeysOf(c_m)
        /\ find(call.inst, c_m, call.key).ret = EmptySetRef
        /\ Deref(find(call.inst, c_m, call.key).ret) = <<>>
        /\ KeysOf(c_m) = KeysOf(c_pre) \ {call.key}
        /\ \A k \in KeysOf(c_m) : SetOf(c_m, k) = SetOf(c_pre, k)
        /\ \A i \in Instances \ {call.inst} : map_[i] = pre[i]

\* remove(key) has deleted a set of two values, and another key remains
RemoveKeyWitness ==
    /\ call.op = "removeKey"
    /\ Cardinality(SetOf(c_pre, call.key)) = 2
    /\ Len(c_m) >= 1

\* C7: find(key) returns the set of key when key is present and otherwise the
\* one static empty set, which is empty in every state; two successive finds
\* of absent keys, on any containers, return the identical object.
FindTotalSharedSentinel ==
    /\ [](/\ emptySet = <<>>
          /\ call.op = "find" =>
                IF call.key \in KeysOf(c_m)
                THEN /\ ret = NodeRef(call.inst, call.key)
                     /\ Elems(Deref(ret)) = SetOf(c_m, call.key)
                ELSE /\ ret = EmptySetRef
                     /\ Deref(ret) = <<>>)
    /\ [][(/\ call.op = "find" /\ call.key \notin KeysOf(c_m)
           /\ call'.op = "find" /\ call'.key \notin KeysOf(map_'[call'.inst]))
          => ret' = ret]_vars

\* find has missed in the second container while both containers hold entries
FindSentinelWitness ==
    /\ call.op = "find"
    /\ call.inst = "m2"
    /\ call.key \notin KeysOf(c_m)
    /\ \A i \in Instances : Len(map_[i]) >= 1
    /\ ret = EmptySetRef

\* C8: findByPrefix(prefix, true) returns exactly the entries whose key starts
\* with prefix, each with its own ValueSet, in ascending key order.
PrefixCompleteSensitive ==
    (call.op = "findByPrefix" /\ call.cs) =>
        Enumerates(ret, call.inst, {k \in KeysOf(c_m) : IsPrefixOf(call.key, k)})

\* the scan has skipped a smaller key, returned a key longer than the prefix,
\* and stopped before a larger key
PrefixSensitiveWitness ==
    /\ call.op = "findByPrefix" /\ call.cs
    /\ Len(ret) >= 1
    /\ ret[1].first # call.key
    /\ c_m[1].first \notin Firsts(ret)
    /\ c_m[Len(c_m)].first \notin Firsts(ret)

\* C9: findByPrefix(prefix, false) returns exactly the entries whose
\* lower-cased key starts with the lower-cased prefix, each with its key as
\* stored and its own ValueSet, in ascending key order.
PrefixCompleteInsensitive ==
    (call.op = "findByPrefix" /\ ~call.cs) =>
        Enumerates(ret, call.inst,
                   {k \in KeysOf(c_m) :
                        IsPrefixOf(transformLower(call.key), transformLower(k))})

\* the scan has returned two keys that do not start with the prefix as
\* written, around a key it did not return
PrefixInsensitiveWitness ==
    /\ call.op = "findByPrefix" /\ ~call.cs
    /\ Len(ret) = 2
    /\ Len(c_m) = 3
    /\ c_m[2].first \notin Firsts(ret)
    /\ ~IsPrefixOf(call.key, ret[1].first)

\* C10: find and findByPrefix leave every container as it was; a find of an
\* absent key creates no entry.
LookupsPure ==
    call.op \in {"find", "findByPrefix"} => map_ = pre /\ emptySet = <<>>

\* find has missed on a container that holds entries
LookupsPureWitness ==
    /\ call.op = "find"
    /\ call.key \notin KeysOf(c_pre)
    /\ Len(c_pre) >= 1
    /\ ret = EmptySetRef

====
